---- MODULE Spec2Model ----
(***************************************************************************)
(* Resource estimator for Shor's algorithm on elliptic curves              *)
(* (ResourceEstimator/shor_estimate.py): the SingleCost / Cost algebra,    *)
(* Lookup_Cost, load_from_csv / fixed_modulus_point_addition_cost and the   *)
(* window search get_optimal_shor.                                          *)
(*                                                                         *)
(* Numbers.  The program computes with Python numbers; the model computes   *)
(* with exact fixed-point numbers (no float rounding).  Every field of a    *)
(* SingleCost is held in a fixed unit, chosen so that every coefficient of  *)
(* Lookup_Cost is a whole number of units:                                  *)
(*     width, measure, single_qubit, CNOT : 1/1000                          *)
(*     full_depth                         : 1/100                           *)
(*     T_depth                            : 1/100000                        *)
(*     T_count                            : 1                               *)
(* A number is a pair <<hi, lo>> standing for hi * Base + lo with           *)
(* 0 <= lo < Base, so that products with 2*n stay inside TLC's integers.    *)
(***************************************************************************)
EXTENDS Integers, Sequences, FiniteSets, TLC

VARIABLES
    \* ---- get_optimal_shor(addition_cost, n): arguments, heap and locals
    pc,                  \* position in get_optimal_shor
    n,                   \* argument n
    heap,                \* SingleCost objects by address (Python references)
    addition_cost,       \* argument: a Cost whose three fields are addresses
    blank_addition_cost, \* local: a Cost whose three fields are addresses
    best_T, best_T_size,
    best_depth, best_depth_size,
    best_width, best_width_size,
    i,                   \* loop variable of line 340
    num_windows, remainder_window,
    main_lookup_costs, total_cost,
    width_added,         \* right-hand sides of the width += of lines 358-365
    result,              \* the returned dictionary
    calls,               \* number of calls started on the same bundle object
    first_result,        \* what the first call returned
    orig,                \* the bundle's field values when it was handed in
    \* ---- the cost algebra applied to drawn vectors
    alg,
    \* ---- two runs of get_optimal_shor on two bundles
    pair,
    \* ---- load_from_csv / fixed_modulus_point_addition_cost
    csv

optVars == <<pc, n, heap, addition_cost, blank_addition_cost, best_T, best_T_size,
             best_depth, best_depth_size, best_width, best_width_size, i,
             num_windows, remainder_window, main_lookup_costs, total_cost,
             width_added, result, calls, first_result, orig>>

vars == <<optVars, alg, pair, csv>>

----------------------------------------------------------------------------
(* Bounds of the model *)

\* largest bit-width n handed to get_optimal_shor
MaxN == 26

\* largest bit-width n of the runs on two bundles
MaxPairN == 10

\* largest number of rows of an external table
MaxRows == 2

----------------------------------------------------------------------------
(* Exact numbers *)

Base == 10^6

\* an integer as a number
Num(x) == <<x \div Base, x % Base>>

\* Python +
NumAdd(a, b) ==
    LET lo == a[2] + b[2]
    IN  <<a[1] + b[1] + (lo \div Base), lo % Base>>

\* Python -
NumSub(a, b) ==
    LET lo == a[2] - b[2]
    IN  <<a[1] - b[1] + (lo \div Base), lo % Base>>

\* Python * with a small non-negative integer factor
NumMul(a, k) ==
    LET lo == a[2] * k
    IN  <<a[1] * k + (lo \div Base), lo % Base>>

\* Python <
NumLess(a, b) == a[1] < b[1] \/ (a[1] = b[1] /\ a[2] < b[2])

NumLeq(a, b) == a = b \/ NumLess(a, b)

\* Python max(a, b)
NumMax(a, b) == IF NumLess(a, b) THEN b ELSE a

----------------------------------------------------------------------------
(* class SingleCost *)

Fields == {"width", "T_depth", "T_count", "full_depth", "measure",
           "single_qubit", "CNOT"}

NonWidthFields == Fields \ {"width"}

\* SingleCost(...) on numbers already in the fields' units
SingleCost(width, T_depth, full_depth, measure, T_count, single_qubit, CNOT) ==
    [width |-> width, T_depth |-> T_depth, T_count |-> T_count,
     full_depth |-> full_depth, measure |-> measure,
     single_qubit |-> single_qubit, CNOT |-> CNOT]

\* SingleCost(...) on integers (as load_from_csv builds it with int(...))
SingleCostOf(width, T_depth, full_depth, measure, T_count, single_qubit, CNOT) ==
    SingleCost(NumMul(Num(width), 1000),
               NumMul(NumMul(Num(T_depth), 1000), 100),
               NumMul(Num(full_depth), 100),
               NumMul(Num(measure), 1000),
               Num(T_count),
               NumMul(Num(single_qubit), 1000),
               NumMul(Num(CNOT), 1000))

\* SingleCost.add with width = self.width + cost2.width
SingleAddSumWidth(self, cost2) ==
    SingleCost(NumAdd(self.width, cost2.width),
               NumAdd(self.T_depth, cost2.T_depth),
               NumAdd(self.full_depth, cost2.full_depth),
               NumAdd(self.measure, cost2.measure),
               NumAdd(self.T_count, cost2.T_count),
               NumAdd(self.single_qubit, cost2.single_qubit),
               NumAdd(self.CNOT, cost2.CNOT))

\* SingleCost.add with width = self.width
SingleAddSelfWidth(self, cost2) ==
    SingleCost(self.width,
               NumAdd(self.T_depth, cost2.T_depth),
               NumAdd(self.full_depth, cost2.full_depth),
               NumAdd(self.measure, cost2.measure),
               NumAdd(self.T_count, cost2.T_count),
               NumAdd(self.single_qubit, cost2.single_qubit),
               NumAdd(self.CNOT, cost2.CNOT))

\* SingleCost.add
SingleAdd(self, cost2) ==
    SingleCost(NumMax(self.width, cost2.width),
               NumAdd(self.T_depth, cost2.T_depth),
               NumAdd(self.full_depth, cost2.full_depth),
               NumAdd(self.measure, cost2.measure),
               NumAdd(self.T_count, cost2.T_count),
               NumAdd(self.single_qubit, cost2.single_qubit),
               NumAdd(self.CNOT, cost2.CNOT))

\* SingleCost.subtract
SingleSubtract(self, cost2) ==
    SingleCost(self.width,
               NumSub(self.T_depth, cost2.T_depth),
               NumSub(self.full_depth, cost2.full_depth),
               NumSub(self.measure, cost2.measure),
               NumSub(self.T_count, cost2.T_count),
               NumSub(self.single_qubit, cost2.single_qubit),
               NumSub(self.CNOT, cost2.CNOT))

\* SingleCost.multiply
SingleMultiply(self, k) ==
    SingleCost(self.width,
               NumMul(self.T_depth, k),
               NumMul(self.full_depth, k),
               NumMul(self.measure, k),
               NumMul(self.T_count, k),
               NumMul(self.single_qubit, k),
               NumMul(self.CNOT, k))

----------------------------------------------------------------------------
(* class Cost *)

Cost(low_depth, low_T, low_width) ==
    [low_depth |-> low_depth, low_T |-> low_T, low_width |-> low_width]

Objectives == {"low_depth", "low_T", "low_width"}

\* Cost.add
CostAdd(self, cost2) ==
    Cost(SingleAdd(self.low_depth, cost2.low_depth),
         SingleAdd(self.low_T, cost2.low_T),
         SingleAdd(self.low_width, cost2.low_width))

\* Cost.multiply
CostMultiply(self, k) ==
    Cost(SingleMultiply(self.low_depth, k),
         SingleMultiply(self.low_T, k),
         SingleMultiply(self.low_width, k))

----------------------------------------------------------------------------
(* Lookup_Cost(n, window_size) *)

\* low_T width with a coefficient of window_size that makes it decreasing
LookupWidthLowTDecreasing(nn, window_size) ==
    Num(19810 + 2010 * nn + 2678 * (40 - window_size))

\* low_T width: 2.678*window_size + 19.81 + 2.01*n
LookupWidthLowT(nn, window_size) ==
    Num(2678 * window_size + 19810 + 2010 * nn)

Lookup_Cost(nn, window_size) ==
    LET main_exponent == 2^window_size
    IN  Cost(
          \* low_depth
          SingleCost(Num(2657 * window_size + 21623 + 2000 * nn),
                     Num(50733 * main_exponent + 2300000),
                     Num(1696 * main_exponent + 9763),
                     Num(1516 * main_exponent + 2185 + 2000 * nn),
                     Num(4 * main_exponent + 24),
                     Num(7793 * main_exponent + 5218 + 2000 * nn),
                     Num(main_exponent * (110740 + 16 * nn) + 134520)),
          \* low_T
          SingleCost(LookupWidthLowT(nn, window_size),
                     Num(50733 * main_exponent + 2300000),
                     Num(1704 * main_exponent + 10104),
                     Num(1503 * main_exponent + 4071 + 2000 * nn),
                     Num(4 * main_exponent + 24),
                     Num(7740 * main_exponent + 10680 + 2000 * nn),
                     Num(115130 * main_exponent + 117760)),
          \* low_width
          SingleCost(Num(2657 * window_size + 21623 + 2000 * nn),
                     Num(50733 * main_exponent + 2300000),
                     Num(1696 * main_exponent + 9798),
                     Num(1516 * main_exponent + 2288 + 2000 * nn),
                     Num(4 * main_exponent + 24),
                     Num(7793 * main_exponent + 5750 + 2000 * nn),
                     Num(main_exponent * (110730 + 16 * nn) + 136793)))

----------------------------------------------------------------------------
(* References.  A SingleCost is a Python object: a variable holds its       *)
(* address and heap holds its fields.  The caller's bundle is the objects    *)
(* at addresses 1..3.  Only the objects get_optimal_shor edits in place      *)
(* through a name that could alias the caller's are kept in the heap; the    *)
(* other locals hold objects built and dropped inside one iteration.         *)

ArgRefs == Cost(1, 2, 3)

Deref(h, c) == Cost(h[c.low_depth], h[c.low_T], h[c.low_width])

Store(h, a, v) == IF a \in DOMAIN h THEN [h EXCEPT ![a] = v] ELSE h @@ (a :> v)

\* a subtract that writes its result into self and returns self
SubtractInPlace(self) == self

\* SingleCost.subtract returns SingleCost(...): a new object
SubtractAlloc(self) == self + 3

\* Cost.subtract on references: the heap after it and the Cost it returns
CostSubtractRef(h, self, cost2) ==
    LET d  == SubtractAlloc(self.low_depth)
        h1 == Store(h, d, SingleSubtract(h[self.low_depth], cost2.low_depth))
        t  == SubtractAlloc(self.low_T)
        h2 == Store(h1, t, SingleSubtract(h1[self.low_T], cost2.low_T))
        w  == SubtractAlloc(self.low_width)
        h3 == Store(h2, w, SingleSubtract(h2[self.low_width], cost2.low_width))
    IN  [heap |-> h3, cost |-> Cost(d, t, w)]

\* obj.width -= x
WidthDecrement(h, a, x) == [h EXCEPT ![a].width = NumSub(@, x)]

----------------------------------------------------------------------------
(* get_optimal_shor(addition_cost, n) *)

\* lines 326-338: the heap, blank_addition_cost and the seed of the three bests
Enter(h, ac, nn) ==
    LET eight_lookup_cost == CostMultiply(Lookup_Cost(nn, 8), 6)
        sub == CostSubtractRef(h, ac, eight_lookup_cost)
        b   == sub.cost
        h1  == WidthDecrement(sub.heap, b.low_depth, eight_lookup_cost.low_depth.width)
        h2  == WidthDecrement(h1, b.low_T, eight_lookup_cost.low_T.width)
        h3  == WidthDecrement(h2, b.low_width, eight_lookup_cost.low_width.width)
    IN  [heap |-> h3, blank |-> b, seed |-> CostMultiply(Deref(h3, ac), 2 * nn)]

\* the seed window size of lines 333, 336, 338
SeedSize == 8

\* range(int(n/2) + 1)
LoopBoundInclusive(nn) == (nn \div 2) + 1

\* int(n/2) of line 340
LoopBound(nn) == nn \div 2

\* line 342
NumWindows(nn, w) == nn \div (w + 1)

\* line 344
RemainderWindow(nn, w) ==
    LET r == nn - NumWindows(nn, w) * (w + 1)
    IN  IF r > 0 THEN r ELSE 0

\* line 345 (and line 354 for the remainder window)
LookupCosts(nn, w) == CostMultiply(Lookup_Cost(nn, w), 6)

\* lines 347-349
MainTotal(blank, nn, w) ==
    CostMultiply(CostAdd(blank, LookupCosts(nn, w)), 2 * NumWindows(nn, w))

\* lines 354-356
RemainderTotal(blank, nn, total, rem) ==
    CostAdd(total, CostMultiply(CostAdd(blank, LookupCosts(nn, rem)), 2))

\* lines 358-360: the right-hand sides of the three width +=
WidthAddedRemainder(nn, w, rem) ==
    LET main   == LookupCosts(nn, w)
        second == LookupCosts(nn, rem)
    IN  [o \in Objectives |-> NumMax(second[o].width, main[o].width)]

\* lines 363-365: the right-hand sides of the three width +=
WidthAddedMain(nn, w) ==
    LET main == LookupCosts(nn, w)
    IN  [o \in Objectives |-> main[o].width]

\* total_cost.<o>.width += wa[o]
AddWidth(total, wa) ==
    [o \in Objectives |-> [total[o] EXCEPT !.width = NumAdd(@, wa[o])]]

\* lines 342-365: total_cost of candidate window size w
TotalCost(blank, nn, w) ==
    LET rem  == RemainderWindow(nn, w)
        main == MainTotal(blank, nn, w)
    IN  IF rem > 0
        THEN AddWidth(RemainderTotal(blank, nn, main, rem), WidthAddedRemainder(nn, w, rem))
        ELSE AddWidth(main, WidthAddedMain(nn, w))

\* line 367 reading the low_depth vectors
ImprovesTByLowDepth(total, best) == NumLess(total.low_depth.T_count, best.low_depth.T_count)

\* line 367 with <=
ImprovesTOrTies(total, best) == NumLeq(total.low_T.T_count, best.low_T.T_count)

\* line 367
ImprovesT(total, best) == NumLess(total.low_T.T_count, best.low_T.T_count)

\* line 370 with the operands exchanged
ImprovesWidthReversed(total, best) == NumLess(best.low_width.T_count, total.low_width.T_count)

\* line 370
ImprovesWidth(total, best) == NumLess(total.low_width.T_count, best.low_width.T_count)

\* line 373 comparing full_depth
ImprovesDepthByFullDepth(total, best) ==
    NumLess(total.low_depth.full_depth, best.low_depth.full_depth)

\* line 373
ImprovesDepth(total, best) == NumLess(total.low_depth.T_depth, best.low_depth.T_depth)

\* the returned dictionary of line 377
Result(bT, bD, bW, sT, sD, sW) ==
    [T |-> bT, depth |-> bD, width |-> bW,
     T_window |-> sT, depth_window |-> sD, width_window |-> sW]

NoCost == Cost(<<>>, <<>>, <<>>)
NoResult == Result(NoCost, NoCost, NoCost, -1, -1, -1)

\* lines 366-375 on the record of the three bests
CompareStep(b, total, w) ==
    [T     |-> IF ImprovesT(total, b.T) THEN total ELSE b.T,
     T_window |-> IF ImprovesT(total, b.T) THEN w ELSE b.T_window,
     width |-> IF ImprovesWidth(total, b.width) THEN total ELSE b.width,
     width_window |-> IF ImprovesWidth(total, b.width) THEN w ELSE b.width_window,
     depth |-> IF ImprovesDepth(total, b.depth) THEN total ELSE b.depth,
     depth_window |-> IF ImprovesDepth(total, b.depth) THEN w ELSE b.depth_window]

RECURSIVE LoopFrom(_, _, _, _)
\* the loop of lines 340-375 from candidate w on
LoopFrom(b, blank, nn, w) ==
    IF ~(w < LoopBound(nn)) THEN b
    ELSE LoopFrom(CompareStep(b, TotalCost(blank, nn, w), w), blank, nn, w + 1)

\* get_optimal_shor as a function of the bundle's value
GetOptimalShor(ac, nn) ==
    LET h0 == [a \in 1..3 |-> IF a = 1 THEN ac.low_depth
                              ELSE IF a = 2 THEN ac.low_T ELSE ac.low_width]
        e  == Enter(h0, ArgRefs, nn)
    IN  LoopFrom(Result(e.seed, e.seed, e.seed, SeedSize, SeedSize, SeedSize),
                 Deref(e.heap, e.blank), nn, 0)

----------------------------------------------------------------------------
(* Bundles handed to get_optimal_shor *)

\* what load_from_csv returns for a size with no row
ZeroVector == SingleCostOf(0, 0, 0, 0, 0, 0, 0)

\* bundles (low_depth, low_T, low_width); fields in the order of SingleCost(...)
Bundles ==
    { Cost(ZeroVector, ZeroVector, ZeroVector),
      Cost(SingleCostOf(300, 1000, 0, 2000, 9000, 3000, 4000),
           SingleCostOf(280, 5000, 9000, 2000, 6144, 3000, 4000),
           SingleCostOf(200, 7000, 9500, 2000, 6156, 3000, 4000)),
      Cost(SingleCostOf(3200, 25000, 27000, 120000, 1700000, 950000, 4400000),
           SingleCostOf(2900, 300000, 1100000, 77000, 100000, 540000, 2100000),
           SingleCostOf(2400, 3000000, 9800000, 15000000, 2000000, 3900000, 17000000)),
      Cost(SingleCostOf(315, 34012, 300000, 122000, 1770000, 953000, 4426000),
           SingleCostOf(279, 309000, 1177000, 77000, 892000, 540000, 2090000),
           SingleCostOf(240, 3094000, 9950000, 15120000, 14530000, 4890000, 18570000)) }

Ns == 2 .. MaxN

----------------------------------------------------------------------------
(* get_optimal_shor as a state machine *)

algIdle == [pc |-> "off"]
pairIdle == [pc |-> "off"]
csvIdle == [pc |-> "off"]

\* the locals of get_optimal_shor before any call
NoCall ==
    /\ addition_cost = ArgRefs
    /\ blank_addition_cost = NoCost
    /\ best_T = NoCost /\ best_T_size = -1
    /\ best_depth = NoCost /\ best_depth_size = -1
    /\ best_width = NoCost /\ best_width_size = -1
    /\ i = 0
    /\ num_windows = 0 /\ remainder_window = 0
    /\ main_lookup_costs = NoCost /\ total_cost = NoCost
    /\ width_added = NoCost
    /\ result = NoResult
    /\ calls = 0
    /\ first_result = NoResult

\* get_optimal_shor is not part of the run
OptOff ==
    /\ pc = "off"
    /\ n = 0
    /\ heap = <<>>
    /\ orig = NoCost
    /\ NoCall

Init ==
    /\ pc = "start"
    /\ n \in Ns
    /\ \E b \in Bundles :
          /\ heap = [a \in 1..3 |-> IF a = 1 THEN b.low_depth
                                    ELSE IF a = 2 THEN b.low_T ELSE b.low_width]
          /\ orig = b
    /\ NoCall
    /\ alg = algIdle /\ pair = pairIdle /\ csv = csvIdle

\* lines 326-338
EnterBody ==
    LET e == Enter(heap, addition_cost, n)
    IN  /\ heap' = e.heap
        /\ blank_addition_cost' = e.blank
        /\ best_T' = e.seed /\ best_T_size' = SeedSize
        /\ best_depth' = e.seed /\ best_depth_size' = SeedSize
        /\ best_width' = e.seed /\ best_width_size' = SeedSize
        /\ i' = 0
        /\ pc' = "loop"
        /\ calls' = calls + 1
        /\ result' = NoResult
        /\ UNCHANGED <<n, addition_cost, num_windows, remainder_window,
                       main_lookup_costs, total_cost, width_added,
                       first_result, orig, alg, pair, csv>>

\* the caller calls get_optimal_shor(addition_cost, n)
Call ==
    /\ pc = "start"
    /\ EnterBody

\* lines 340-349: the next candidate i, up to total_cost of line 349
MainWindow ==
    /\ pc = "loop"
    /\ i < LoopBound(n)
    /\ num_windows' = NumWindows(n, i)
    /\ remainder_window' = RemainderWindow(n, i)
    /\ main_lookup_costs' = LookupCosts(n, i)
    /\ total_cost' = MainTotal(Deref(heap, blank_addition_cost), n, i)
    /\ pc' = "remainder"
    /\ UNCHANGED <<n, heap, addition_cost, blank_addition_cost, best_T, best_T_size,
                   best_depth, best_depth_size, best_width, best_width_size, i,
                   width_added, result, calls, first_result, orig, alg, pair, csv>>

\* lines 353-360
WithRemainder ==
    /\ pc = "remainder"
    /\ remainder_window > 0
    /\ LET wa == WidthAddedRemainder(n, i, remainder_window)
       IN  /\ width_added' = wa
           /\ total_cost' = AddWidth(RemainderTotal(Deref(heap, blank_addition_cost), n,
                                                    total_cost, remainder_window), wa)
    /\ pc' = "compare"
    /\ UNCHANGED <<n, heap, addition_cost, blank_addition_cost, best_T, best_T_size,
                   best_depth, best_depth_size, best_width, best_width_size, i,
                   num_windows, remainder_window, main_lookup_costs,
                   result, calls, first_result, orig, alg, pair, csv>>

\* lines 361-365
NoRemainder ==
    /\ pc = "remainder"
    /\ ~(remainder_window > 0)
    /\ LET wa == WidthAddedMain(n, i)
       IN  /\ width_added' = wa
           /\ total_cost' = AddWidth(total_cost, wa)
    /\ pc' = "compare"
    /\ UNCHANGED <<n, heap, addition_cost, blank_addition_cost, best_T, best_T_size,
                   best_depth, best_depth_size, best_width, best_width_size, i,
                   num_windows, remainder_window, main_lookup_costs,
                   result, calls, first_result, orig, alg, pair, csv>>

\* lines 366-375, and on to the next candidate
Compare ==
    /\ pc = "compare"
    /\ LET b == CompareStep(Result(best_T, best_depth, best_width,
                                   best_T_size, best_depth_size, best_width_size),
                            total_cost, i)
       IN  /\ best_T' = b.T /\ best_T_size' = b.T_window
           /\ best_width' = b.width /\ best_width_size' = b.width_window
           /\ best_depth' = b.depth /\ best_depth_size' = b.depth_window
    /\ i' = i + 1
    /\ pc' = "loop"
    /\ UNCHANGED <<n, heap, addition_cost, blank_addition_cost,
                   num_windows, remainder_window, main_lookup_costs, total_cost,
                   width_added, result, calls, first_result, orig, alg, pair, csv>>

\* line 377
Return ==
    /\ pc = "loop"
    /\ ~(i < LoopBound(n))
    /\ result' = Result(best_T, best_depth, best_width,
                        best_T_size, best_depth_size, best_width_size)
    /\ first_result' = IF calls = 1 THEN result' ELSE first_result
    /\ pc' = "done"
    /\ UNCHANGED <<n, heap, addition_cost, blank_addition_cost, best_T, best_T_size,
                   best_depth, best_depth_size, best_width, best_width_size, i,
                   num_windows, remainder_window, main_lookup_costs, total_cost,
                   width_added, calls, orig, alg, pair, csv>>

\* the caller calls get_optimal_shor again with the same bundle object and n
CallAgain ==
    /\ pc = "done"
    /\ calls = 1
    /\ EnterBody

Next == Call \/ MainWindow \/ WithRemainder \/ NoRemainder \/ Compare \/ Return \/ CallAgain

Spec == Init /\ [][Next]_vars

----------------------------------------------------------------------------
(* Properties of get_optimal_shor *)

\* the window sizes the specification allows: 0 <= w < floor(n/2)
Windows(nn) == 0 .. (nn \div 2) - 1

\* addition_cost.multiply(2*n) of the bundle as it was handed in
SeedCost == CostMultiply(orig, 2 * n)

\* blank_addition_cost as the loop reads it
Blank == Deref(heap, blank_addition_cost)

\* w is the smallest of the candidates ws whose value val[w] is least
SmallestMin(val, ws, w) ==
    /\ w \in ws
    /\ \A v \in ws : NumLeq(val[w], val[v])
    /\ \A v \in ws : v < w => NumLess(val[w], val[v])

\* C1: every window size get_optimal_shor returns is an integer w with
\* 0 <= w < floor(n/2); the seed size 8 is returned only as a candidate.
C1_WindowsInRange ==
    pc = "done" =>
        /\ result.T_window \in Windows(n)
        /\ result.depth_window \in Windows(n)
        /\ result.width_window \in Windows(n)

\* a call has returned for an n whose candidates do not include the seed size 8
C1_Witness ==
    /\ pc = "done"
    /\ SeedSize \notin Windows(n)
    /\ result.depth_window > 0

\* C2 as claimed: each returned cost is <= the seed in its objective's metric,
\* the depth objective's metric being full_depth.
C2_AsClaimed ==
    pc = "done" =>
        /\ NumLeq(result.T.low_T.T_count, SeedCost.low_T.T_count)
        /\ NumLeq(result.depth.low_depth.full_depth, SeedCost.low_depth.full_depth)
        /\ NumLeq(result.width.low_width.T_count, SeedCost.low_width.T_count)

\* C2 amended: each returned cost is <= the seed in the metric the code
\* compares: T_count of low_T, T_depth of low_depth, T_count of low_width.
C2_BelowSeed ==
    pc = "done" =>
        /\ NumLeq(result.T.low_T.T_count, SeedCost.low_T.T_count)
        /\ NumLeq(result.depth.low_depth.T_depth, SeedCost.low_depth.T_depth)
        /\ NumLeq(result.width.low_width.T_count, SeedCost.low_width.T_count)

\* a call has returned costs strictly below the seed, for a window above 8
C2_Witness ==
    /\ pc = "done"
    /\ result.depth_window > SeedSize
    /\ NumLess(result.depth.low_depth.T_depth, SeedCost.low_depth.T_depth)
    /\ NumLess(result.width.low_width.T_count, SeedCost.low_width.T_count)

\* C3 as claimed: the returned depth-window is a candidate minimizing the
\* full_depth of low_depth over all candidates.
C3_AsClaimed ==
    pc = "done" =>
        LET fd == [w \in Windows(n) |-> TotalCost(Blank, n, w).low_depth.full_depth]
        IN  /\ result.depth_window \in Windows(n)
            /\ \A w \in Windows(n) : NumLeq(fd[result.depth_window], fd[w])

\* C3 amended: the depth objective is selected by T_depth.  After the
\* candidates 0..i-1, the running depth best is the seed if no candidate's
\* low_depth T_depth is strictly below the seed's, and otherwise the total of
\* the smallest candidate whose low_depth T_depth is least.
C3_DepthByTDepth ==
    pc \in {"loop", "done"} =>
        LET ws == 0 .. i - 1
            td == [w \in ws |-> TotalCost(Blank, n, w).low_depth.T_depth]
        IN  IF \E w \in ws : NumLess(td[w], SeedCost.low_depth.T_depth)
            THEN /\ SmallestMin(td, ws, best_depth_size)
                 /\ best_depth = TotalCost(Blank, n, best_depth_size)
            ELSE /\ best_depth_size = SeedSize
                 /\ best_depth = SeedCost

\* a call has returned a depth-window that a candidate won and that does not
\* minimize full_depth
C3_Witness ==
    /\ pc = "done"
    /\ result.depth_window # SeedSize
    /\ \E w \in Windows(n) :
          NumLess(TotalCost(Blank, n, w).low_depth.full_depth,
                  result.depth.low_depth.full_depth)

\* C4: the returned T-window (width-window) is the smallest candidate whose
\* total has the least T_count of low_T (of low_width), and the returned cost
\* is the total computed at that candidate.
C4_SmallestByTCount ==
    pc = "done" =>
        LET tot == [w \in Windows(n) |-> TotalCost(Blank, n, w)]
            tT  == [w \in Windows(n) |-> tot[w].low_T.T_count]
            tW  == [w \in Windows(n) |-> tot[w].low_width.T_count]
        IN  /\ SmallestMin(tT, Windows(n), result.T_window)
            /\ result.T = tot[result.T_window]
            /\ SmallestMin(tW, Windows(n), result.width_window)
            /\ result.width = tot[result.width_window]

\* a call has returned where a larger candidate ties with the T-window on
\* T_count, and where the width-window's total is not the narrowest
C4_WitnessTie ==
    /\ pc = "done"
    /\ \E w \in Windows(n) :
          /\ w > result.T_window
          /\ TotalCost(Blank, n, w).low_T.T_count = result.T.low_T.T_count
    /\ \E w \in Windows(n) :
          NumLess(TotalCost(Blank, n, w).low_width.width, result.width.low_width.width)

\* C9: the caller's bundle keeps every field value it was handed in with, and
\* a second call on the same bundle object returns what the first returned.
C9_ArgumentUnchanged ==
    /\ Deref(heap, addition_cost) = orig
    /\ (pc = "done" /\ calls = 2) => result = first_result

\* a second call has returned, after in-place width edits of blank_addition_cost
C9_Witness ==
    /\ pc = "done"
    /\ calls = 2
    /\ Blank.low_T.width # orig.low_T.width
    /\ result.T.low_T.width # SeedCost.low_T.width

\* C10: for every candidate examined, num_windows*(w+1) + remainder_window = n
\* with num_windows >= 2 and 0 <= remainder_window <= w, the remainder lookup
\* is no wider than the main lookup, and the width added to total_cost is the
\* main lookup's width for every objective, in both branches.
C10_WindowsCoverN ==
    pc = "compare" =>
        /\ num_windows * (i + 1) + remainder_window = n
        /\ num_windows >= 2
        /\ 0 <= remainder_window /\ remainder_window <= i
        /\ \A o \in Objectives :
              /\ NumLeq(LookupCosts(n, remainder_window)[o].width,
                        main_lookup_costs[o].width)
              /\ width_added[o] = main_lookup_costs[o].width

\* a candidate with a remainder window has been examined
C10_Witness ==
    /\ pc = "compare"
    /\ remainder_window > 0
    /\ i > 1
    /\ width_added.low_T = main_lookup_costs.low_T.width

----------------------------------------------------------------------------
(* The cost algebra on drawn vectors *)

\* the vectors of the bundles above
Vectors == { b[o] : b \in Bundles, o \in {"low_depth", "low_T"} }

InitAlgebra ==
    /\ OptOff
    /\ \E A \in Vectors, B \in Vectors, C \in Vectors :
          alg = [pc |-> "drawn", A |-> A, B |-> B, C |-> C, out |-> <<>>]
    /\ pair = pairIdle /\ csv = csvIdle

\* A.add(B), B.add(A), A.add(B).add(C), A.add(B.add(C))
AlgAdd ==
    /\ alg.pc = "drawn"
    /\ alg' = [alg EXCEPT !.pc = "added",
                          !.out = [ab   |-> SingleAdd(alg.A, alg.B),
                                   ba   |-> SingleAdd(alg.B, alg.A),
                                   ab_c |-> SingleAdd(SingleAdd(alg.A, alg.B), alg.C),
                                   a_bc |-> SingleAdd(alg.A, SingleAdd(alg.B, alg.C))]]
    /\ UNCHANGED <<optVars, pair, csv>>

\* A.add(B).subtract(B)
AlgRoundTrip ==
    /\ alg.pc = "drawn"
    /\ alg' = [alg EXCEPT !.pc = "round",
                          !.out = SingleSubtract(SingleAdd(alg.A, alg.B), alg.B)]
    /\ UNCHANGED <<optVars, pair, csv>>

\* the bundles built from the drawn vectors
BundleX == Cost(alg.A, alg.B, alg.C)
BundleY == Cost(alg.B, alg.C, alg.A)
BundleZ == Cost(alg.C, alg.A, alg.A)

\* Cost.add on the bundles X, Y, Z
AlgBundleAdd ==
    /\ alg.pc = "drawn"
    /\ alg' = [alg EXCEPT !.pc = "bundle",
                          !.out = [xy   |-> CostAdd(BundleX, BundleY),
                                   yx   |-> CostAdd(BundleY, BundleX),
                                   xy_z |-> CostAdd(CostAdd(BundleX, BundleY), BundleZ),
                                   x_yz |-> CostAdd(BundleX, CostAdd(BundleY, BundleZ))]]
    /\ UNCHANGED <<optVars, pair, csv>>

NextAlgebra == AlgAdd \/ AlgRoundTrip \/ AlgBundleAdd

SpecAlgebra == InitAlgebra /\ [][NextAlgebra]_vars

----------------------------------------------------------------------------
(* Two runs of get_optimal_shor, on two bundles and the same n *)

\* the bundles that take each vector from one of two of the bundles above
PairBundles ==
    LET src == { b \in Bundles : b.low_T.T_count \in {Num(0), Num(100000)} }
    IN  { Cost(d.low_depth, t.low_T, w.low_width) : d \in src, t \in src, w \in src }

InitPair ==
    /\ OptOff
    /\ \E A \in PairBundles, B \in PairBundles, m \in 2 .. MaxPairN :
          pair = [pc |-> "drawn", n |-> m, A |-> A, B |-> B,
                  resA |-> NoResult, resB |-> NoResult]
    /\ alg = algIdle /\ csv = csvIdle

\* get_optimal_shor(A, n)
RunA ==
    /\ pair.pc = "drawn"
    /\ pair' = [pair EXCEPT !.pc = "ranA", !.resA = GetOptimalShor(pair.A, pair.n)]
    /\ UNCHANGED <<optVars, alg, csv>>

\* get_optimal_shor(B, n)
RunB ==
    /\ pair.pc = "ranA"
    /\ pair' = [pair EXCEPT !.pc = "ranB", !.resB = GetOptimalShor(pair.B, pair.n)]
    /\ UNCHANGED <<optVars, alg, csv>>

NextPair == RunA \/ RunB

SpecPair == InitPair /\ [][NextPair]_vars

\* C8: two bundles that agree on the low_T vector get the same T-window and
\* the same low_T vector in the returned T cost, whatever their other two
\* vectors are; likewise low_depth for the depth result and low_width for the
\* width result.
C8_NoCrossObjectiveCoupling ==
    pair.pc = "ranB" =>
        /\ pair.A.low_T = pair.B.low_T =>
              /\ pair.resA.T_window = pair.resB.T_window
              /\ pair.resA.T.low_T = pair.resB.T.low_T
        /\ pair.A.low_depth = pair.B.low_depth =>
              /\ pair.resA.depth_window = pair.resB.depth_window
              /\ pair.resA.depth.low_depth = pair.resB.depth.low_depth
        /\ pair.A.low_width = pair.B.low_width =>
              /\ pair.resA.width_window = pair.resB.width_window
              /\ pair.resA.width.low_width = pair.resB.width.low_width

\* both runs are done on bundles that share only the low_T vector and get
\* different depth and width results
C8_Witness ==
    /\ pair.pc = "ranB"
    /\ pair.A.low_T = pair.B.low_T
    /\ pair.A.low_depth # pair.B.low_depth
    /\ pair.A.low_width # pair.B.low_width
    /\ pair.resA.depth_window # pair.resB.depth_window
    /\ pair.resA.T # pair.resB.T

----------------------------------------------------------------------------
(* load_from_csv and fixed_modulus_point_addition_cost *)

(* A cell of a table is the string the csv reader yields, here a sequence   *)
(* of decimal digits.  A row of a base table has the columns size, CNOT     *)
(* count, 1-qubit Clifford count, T count, M count, T depth, extra width; a *)
(* row of an all-gates table has the columns size and Full depth.           *)

RECURSIVE DigitsOf(_)
\* str(n)
DigitsOf(k) == IF k < 10 THEN <<k>> ELSE Append(DigitsOf(k \div 10), k % 10)

RECURSIVE IntOf(_)
\* int(cell)
IntOf(s) ==
    IF Len(s) = 1 THEN s[1]
    ELSE IntOf(SubSeq(s, 1, Len(s) - 1)) * 10 + s[Len(s)]

\* lines 199-209: costs after a row whose size matched.  existing is <<>>
\* for None and <<c>> for the SingleCost c.
MatchedRow(row, existing, costs) ==
    IF existing = <<>>
    THEN [SingleCostOf(IntOf(row.width), IntOf(row.T_depth), 0, IntOf(row.M),
                       IntOf(row.T), IntOf(row.Clifford), IntOf(row.CNOT))
            EXCEPT !.full_depth = costs.full_depth]
    ELSE [existing[1] EXCEPT !.full_depth = NumMul(Num(IntOf(row.Full_depth)), 100)]

RECURSIVE LoadRows(_, _, _, _, _)
\* the loop of lines 197-209 from row j on
LoadRows(rows, j, nn, existing, costs) ==
    IF j > Len(rows) THEN costs
    ELSE IF rows[j].size = DigitsOf(nn)
         THEN LoadRows(rows, j + 1, nn,
                       IF existing = <<>> THEN existing
                       ELSE <<MatchedRow(rows[j], existing, costs)>>,
                       MatchedRow(rows[j], existing, costs))
         ELSE LoadRows(rows, j + 1, nn, existing, costs)

\* load_from_csv(csv_file_name, n, existing_costs) on the rows of the file
load_from_csv(rows, nn, existing) ==
    LoadRows(rows, 1, nn, existing, SingleCostOf(0, 0, 0, 0, 0, 0, 0))

\* the size cells of the tables, and the sizes asked for
SizeCells == {<<2>>, <<1, 2>>}
AskedSizes == {2, 3, 12}

\* the size columns a table can have
RECURSIVE SizeColumns(_)
SizeColumns(len) ==
    IF len = 0 THEN {<<>>}
    ELSE SizeColumns(len - 1) \cup
         { Append(c, z) : c \in { x \in SizeColumns(len - 1) : Len(x) = len - 1 },
                          z \in SizeCells }

\* the row of directory d's base table for a size cell
BaseRow(d, size) ==
    [size |-> size, CNOT |-> <<4, d, Len(size)>>, Clifford |-> <<3, d>>,
     T |-> <<7, d, 0>>, M |-> <<1, d>>, T_depth |-> <<2, d>>, width |-> <<9, d>>]

\* the row of directory d's all-gates table for a size cell
AllGatesRow(d, size) == [size |-> size, Full_depth |-> <<5, d, Len(size)>>]

InitCsv ==
    /\ OptOff
    /\ \E m \in AskedSizes, bc \in SizeColumns(MaxRows), ac \in SizeColumns(MaxRows) :
          csv = [pc |-> "base", n |-> m, d |-> 1,
                 base |-> [d \in 1..3 |-> [j \in 1..Len(bc) |-> BaseRow(d, bc[j])]],
                 all  |-> [d \in 1..3 |-> [j \in 1..Len(ac) |-> AllGatesRow(d, ac[j])]],
                 costs |-> <<>>, loaded |-> <<>>,
                 outcome |-> "none", out |-> NoCost]
    /\ alg = algIdle /\ pair = pairIdle

\* lines 216, 219, 222: load_from_csv(<dir>/Fixed-modulus-signed.csv, n)
LoadBase ==
    /\ csv.pc = "base"
    /\ csv' = [csv EXCEPT !.pc = "all",
                          !.costs = <<load_from_csv(csv.base[csv.d], csv.n, <<>>)>>]
    /\ UNCHANGED <<optVars, alg, pair>>

\* lines 217, 220, 223: load_from_csv(<dir>/...-all-gates.csv, n, costs)
LoadAllGates ==
    /\ csv.pc = "all"
    /\ csv' = [csv EXCEPT !.pc = IF csv.d = 3 THEN "return" ELSE "base",
                          !.d = IF csv.d = 3 THEN 3 ELSE csv.d + 1,
                          !.loaded = Append(csv.loaded,
                                            load_from_csv(csv.all[csv.d], csv.n, csv.costs)),
                          !.costs = <<>>]
    /\ UNCHANGED <<optVars, alg, pair>>

\* line 225
FixedReturn ==
    /\ csv.pc = "return"
    /\ csv' = [csv EXCEPT !.pc = "returned",
                          !.outcome = "cost",
                          !.out = Cost(csv.loaded[3], csv.loaded[1], csv.loaded[2])]
    /\ UNCHANGED <<optVars, alg, pair>>

NextCsv == LoadBase \/ LoadAllGates \/ FixedReturn

SpecCsv == InitCsv /\ [][NextCsv]_vars

\* a table has no row with size = n
NoRow(rows, nn) == \A j \in 1..Len(rows) : rows[j].size # DigitsOf(nn)

\* C5: when the fixed-modulus path is asked for an n that has no row in the
\* external table, the outcome is an error; it never returns a cost.
C5_MissingRowIsAnError ==
    (/\ csv.pc = "returned"
     /\ \E d \in 1..3 : NoRow(csv.base[d], csv.n) \/ NoRow(csv.all[d], csv.n))
    => csv.outcome = "error"

====
